---- MODULE Spec2Model ----
(***************************************************************************)
(* Model of cartpole-torch: the single-system integrator (system.py,      *)
(* state.py, history.py), the state lattice (discreditizer.py), the batch *)
(* sampler (learning_context.py) and the batched integrator (system.py).  *)
(*                                                                         *)
(* Real numbers are fixed-point integers: the integer n stands for        *)
(* n / Scale.  Tensor dtypes (float32 / float64) are not distinguished.   *)
(***************************************************************************)
EXTENDS Integers, Sequences, FiniteSets, TLC

VARIABLES
    config,           \* system id -> SystemConfiguration of that CartPoleSystem
    current_state,    \* system id -> State
    simulation_time,  \* system id -> seconds since the start of the simulation
    history,          \* system id -> the SystemHistory object the system refers to
    entries,          \* SystemHistory object -> its list of HistoryEntry
    context,          \* the MultiSystemLearningContext (config, discreditizer, batch_state)
    new_positions,    \* what the last get_new_positions call returned and from what
    last_call         \* the last call made and how it ended

vars == <<config, current_state, simulation_time, history, entries,
          context, new_positions, last_call>>

sys_vars == <<config, current_state, simulation_time, history, entries>>

----------------------------------------------------------------------------
(* Bounds of the model *)

\* longest history a system is driven to
MaxSteps == 3

\* advance_to targets are the multiples of TargetGrain up to MaxTarget * TargetGrain
MaxTarget == 6

\* most grid points a configuration asks for in one dimension
MaxPoints == 2

\* largest batch size handed to update_batch
MaxBatch == 2

----------------------------------------------------------------------------
(* Fixed-point arithmetic *)

Scale == 10 * 10

One == Scale

Mul(a, b) == (a * b) \div Scale

\* a row of a tensor, held as its elements
Row(f) == f \o <<>>

Div(a, b) == (a * Scale) \div b

\* numpy.pi / torch.pi, in units of 1 / Scale
Pi == 314

TwoPi == 2 * Pi

\* sin on [0, pi] (Bhaskara's rational approximation), in units of 1 / Scale
SinHalfTurn(x) == (Scale * 16 * x * (Pi - x)) \div (5 * Pi * Pi - 4 * x * (Pi - x))

sin(ang) ==
    LET x == ang % TwoPi
    IN  IF x <= Pi THEN SinHalfTurn(x) ELSE 0 - SinHalfTurn(x - Pi)

cos(ang) == sin(ang + Pi \div 2)

----------------------------------------------------------------------------
(* state.py *)

\* a remainder that truncates towards zero (C's fmod) instead
PyMod_truncating(a, m) == IF a >= 0 THEN a % m ELSE 0 - ((0 - a) % m)

\* float % float: the result has the sign of the divisor
PyMod(a, m) == a % m

State(cart_position, pole_angle, cart_velocity, angular_velocity) ==
    [cart_position    |-> cart_position,
     pole_angle       |-> PyMod(pole_angle, TwoPi),
     cart_velocity    |-> cart_velocity,
     angular_velocity |-> angular_velocity]

home == State(0, 0, 0, 0)

target == State(0, Pi, 0, 0)

as_tensor(state) ==
    <<state.cart_position, state.pole_angle,
      state.cart_velocity, state.angular_velocity>>

from_collection(arr) ==
    IF Len(arr) # 4
    THEN "ValueError"
    ELSE State(arr[1], arr[2], arr[3], arr[4])

----------------------------------------------------------------------------
(* history.py *)

HistoryEntry(timestamp, current_input, state) ==
    [timestamp |-> timestamp, current_input |-> current_input, state |-> state]

\* the new entry put at the head of the list
add_entry_at_head(hist_entries, timestamp, current_input, state) ==
    <<[timestamp |-> timestamp, current_input |-> current_input,
       state |-> state]>> \o hist_entries

add_entry(hist_entries, timestamp, current_input, state) ==
    Append(hist_entries, HistoryEntry(timestamp, current_input, state))

----------------------------------------------------------------------------
(* config.py *)

\* SystemParameters: pole_length 0.2 m, gravity 9.807 m/s^2
SystemParameters == [pole_length |-> 20, gravity |-> 981]

\* SystemLimits: 0.25 m, 25.0 m/s, 7 m/s^2
SystemLimits ==
    [max_abs_position     |-> 25,
     max_abs_velocity     |-> 2500,
     max_abs_acceleration |-> 700]

\* limits.max_abs_angular_velocity, which the Discreditizer reads
MaxAbsAngularVelocity == [max_abs_angular_velocity |-> 1000]

\* config.discretization: the input rate (ticks per second) and the number of
\* grid points per dimension
Discretization(input_time, n_x, n_theta, n_xdot, n_thetadot, n_u) ==
    [input_time            |-> input_time,
     cart_position         |-> n_x,
     pole_angle            |-> n_theta,
     cart_velocity         |-> n_xdot,
     pole_angular_velocity |-> n_thetadot,
     cart_acceleration     |-> n_u]

SystemConfiguration(dynamics_steps_per_input, discretization) ==
    [parameters               |-> SystemParameters,
     limits                   |-> SystemLimits @@ MaxAbsAngularVelocity,
     dynamics_steps_per_input |-> dynamics_steps_per_input,
     discretization           |-> discretization]

\* input rates and sub-step counts the configurations of the model carry
InputRates == {200, 500}

DynamicsSteps == {1, 2}

----------------------------------------------------------------------------
(* system.py: CartPoleSystem *)

VecAdd(a, b) == <<a[1] + b[1], a[2] + b[2], a[3] + b[3], a[4] + b[4]>>

VecScale(a, k) == <<Mul(a[1], k), Mul(a[2], k), Mul(a[3], k), Mul(a[4], k)>>

VecHalf(a) == <<a[1] \div 2, a[2] \div 2, a[3] \div 2, a[4] \div 2>>

compute_derivative(state, best_input, pole_len, grav) ==
    LET ang == state[2]
        u   == best_input
    IN  <<state[3],
          state[4],
          u,
          Mul(0 - Div(150, pole_len), Mul(u, cos(ang)) + Mul(grav, sin(ang)))>>

\* one pass of the body of `for _ in range(steps)`
SubStep(cur_st, best_input, dt, pole_len, grav) ==
    LET t1 == compute_derivative(cur_st, best_input, pole_len, grav)
        t2 == compute_derivative(VecAdd(cur_st, VecScale(t1, dt)),
                                 best_input, pole_len, grav)
    IN  VecAdd(cur_st, VecScale(VecHalf(VecAdd(t1, t2)), dt))

RECURSIVE Integrate(_, _, _, _, _, _)
Integrate(cur_st, remaining, best_input, dt, pole_len, grav) ==
    IF remaining = 0
    THEN cur_st
    ELSE Integrate(SubStep(cur_st, best_input, dt, pole_len, grav),
                   remaining - 1, best_input, dt, pole_len, grav)

\* dt = 1 / (steps * config.discretization.input_time)
DeltaTime(cfg) ==
    Div(One, cfg.dynamics_steps_per_input * cfg.discretization.input_time)

\* 1 / config.discretization.input_time
InputTick(cfg) == Div(One, cfg.discretization.input_time)

\* the tensor cur_st at the end of the integration loop of advance_one_step
IntegratedTensor(cfg, state, best_input) ==
    Integrate(as_tensor(state), cfg.dynamics_steps_per_input, best_input,
              DeltaTime(cfg), cfg.parameters.pole_length, cfg.parameters.gravity)

\* A system as the triple advance_one_step reads and writes:
\* sys = [current_state, simulation_time, entries (of its history)]
advance_one_step(cfg, sys, best_input) ==
    LET cur_st == IntegratedTensor(cfg, sys.current_state, best_input)
    IN  [entries         |-> add_entry(sys.entries, sys.simulation_time,
                                       best_input, sys.current_state),
         current_state   |-> from_collection(cur_st),
         simulation_time |-> sys.simulation_time + InputTick(cfg)]

\* the loop running while simulation_time <= target_time
LoopCondition_inclusive(sim_time, target_time) == sim_time <= target_time

\* the condition of the while loop of advance_to
LoopCondition(sim_time, target_time) == sim_time < target_time

RECURSIVE AdvanceLoop(_, _, _, _)
AdvanceLoop(cfg, sys, target_time, best_input) ==
    IF LoopCondition(sys.simulation_time, target_time)
    THEN AdvanceLoop(cfg, advance_one_step(cfg, sys, best_input),
                     target_time, best_input)
    ELSE sys

\* advance_to without its opening check
InvalidTimeOrder_unchecked(sim_time, target_time) == FALSE

\* the check that opens advance_to
InvalidTimeOrder(sim_time, target_time) == target_time < sim_time

\* advance_to as a whole: [raised, sys]
advance_to(cfg, sys, target_time, best_input) ==
    IF InvalidTimeOrder(sys.simulation_time, target_time)
    THEN [raised |-> TRUE, sys |-> sys]
    ELSE [raised |-> FALSE,
          sys    |-> AdvanceLoop(cfg, sys, target_time, best_input)]

----------------------------------------------------------------------------
(* discreditizer.py *)

\* torch.linspace(start, end, steps): both ends are points of the grid, the
\* upper half is counted back from `end`; one point alone is `start`
linspace(start, end, steps) ==
    [i \in 1..steps |->
        IF steps = 1
        THEN start
        ELSE LET step == (end - start) \div (steps - 1)
             IN  IF i - 1 < steps \div 2
                 THEN start + step * (i - 1)
                 ELSE end - step * (steps - i)]

RECURSIVE Product(_)
Product(shape) ==
    IF shape = <<>> THEN 1 ELSE Head(shape) * Product(Tail(shape))

\* the multi-index at which a column-major (Fortran order) flatten puts flat
\* position f
Unravel_column_major(f, shape) ==
    [d \in 1..Len(shape) |->
        (f \div Product(SubSeq(shape, 1, d - 1))) % shape[d]]

\* the multi-index (0-based) that tensor.flatten() puts at flat position f
\* (0-based) of a tensor of the given shape: the last dimension runs fastest
Unravel(f, shape) ==
    [d \in 1..Len(shape) |->
        (f \div Product(SubSeq(shape, d + 1, Len(shape)))) % shape[d]]

\* torch.meshgrid(grids, indexing="ij")[d].flatten()
MeshgridFlat(grids, d) ==
    LET shape == [e \in 1..Len(grids) |-> Len(grids[e])]
    IN  Row([f \in 1..Product(shape) |-> grids[d][Unravel(f - 1, shape)[d] + 1]])

thetas(cfg) == linspace(0, 2 * Pi, cfg.discretization.pole_angle)

\* Discreditizer.__post_init__
Discreditizer(cfg) ==
    LET xs == linspace(0 - cfg.limits.max_abs_position,
                       cfg.limits.max_abs_position,
                       cfg.discretization.cart_position)
        xdots == linspace(0 - cfg.limits.max_abs_velocity,
                          cfg.limits.max_abs_velocity,
                          cfg.discretization.cart_velocity)
        thetadots == linspace(0 - cfg.limits.max_abs_angular_velocity,
                              cfg.limits.max_abs_angular_velocity,
                              cfg.discretization.pole_angular_velocity)
        grids == <<xs, thetas(cfg), xdots, thetadots>>
    IN  [config |-> cfg,
         cart_accelerations |->
             linspace(0 - cfg.limits.max_abs_acceleration,
                      cfg.limits.max_abs_acceleration,
                      cfg.discretization.cart_acceleration),
         all_states |-> <<MeshgridFlat(grids, 1), MeshgridFlat(grids, 2),
                          MeshgridFlat(grids, 3), MeshgridFlat(grids, 4)>>]

\* all_states.shape[1]
space_size(discreditizer) == Len(discreditizer.all_states[1])

----------------------------------------------------------------------------
(* learning_context.py *)

\* MultiSystemState.from_batch: the lattice columns at the given indices;
\* an index outside the lattice raises
from_batch(all_states, batch) ==
    IF \E j \in 1..Len(batch) : batch[j] \notin 0..(Len(all_states[1]) - 1)
    THEN [IndexError |-> TRUE]
    ELSE [states |->
            [d \in 1..4 |->
                Row([j \in 1..Len(batch) |-> all_states[d][batch[j] + 1]])]]

\* rounding to the nearest integer instead
long_rounding(x) == (x + Scale \div 2) \div Scale

\* Tensor.long() of a non-negative value: the fraction is cut off
long(x) == x \div Scale

\* a check that lets a batch of size 0 through
InvalidBatchSize_zero_allowed(batch_size, total_states) ==
    ~(0 <= batch_size /\ batch_size <= total_states)

\* the check that opens update_batch
InvalidBatchSize(batch_size, total_states) ==
    ~(0 < batch_size /\ batch_size <= total_states)

\* update_batch given what torch.rand(batch_size) returned: [raised, context]
update_batch(ctx, batch_size, rand) ==
    LET total_states == space_size(ctx.discreditizer)
    IN  IF InvalidBatchSize(batch_size, total_states)
        THEN [raised |-> TRUE, context |-> ctx]
        ELSE LET batch == [j \in 1..batch_size |-> long(rand[j] * total_states)]
                 new   == from_batch(ctx.discreditizer.all_states, batch)
             IN  IF "IndexError" \in DOMAIN new
                 THEN [raised |-> TRUE, context |-> ctx]
                 ELSE [raised  |-> FALSE,
                       context |-> [ctx EXCEPT !.batch_state = new]]

----------------------------------------------------------------------------
(* system.py: CartPoleMultiSystem *)

Width(m) == Len(m[1])

RowAdd(a, b) == Row([j \in 1..Len(a) |-> a[j] + b[j]])

RowScale(a, k) == Row([j \in 1..Len(a) |-> Mul(a[j], k)])

RowHalf(a) == Row([j \in 1..Len(a) |-> a[j] \div 2])

MatAdd(a, b) ==
    <<RowAdd(a[1], b[1]), RowAdd(a[2], b[2]), RowAdd(a[3], b[3]), RowAdd(a[4], b[4])>>

MatScale(a, k) ==
    <<RowScale(a[1], k), RowScale(a[2], k), RowScale(a[3], k), RowScale(a[4], k)>>

MatHalf(a) == <<RowHalf(a[1]), RowHalf(a[2]), RowHalf(a[3]), RowHalf(a[4])>>

multi_compute_derivative(state, inputs, pole_len, grav) ==
    LET ang == state[2]
    IN  <<state[3],
          state[4],
          inputs,
          Row([j \in 1..Width(state) |->
                  Mul(0 - Div(150, pole_len),
                      Mul(inputs[j], cos(ang[j])) + Mul(grav, sin(ang[j])))])>>

MultiSubStep(cur_st, inputs, dt, pole_len, grav) ==
    LET t1 == multi_compute_derivative(cur_st, inputs, pole_len, grav)
        t2 == multi_compute_derivative(MatAdd(cur_st, MatScale(t1, dt)),
                                       inputs, pole_len, grav)
    IN  MatAdd(cur_st, MatScale(MatHalf(MatAdd(t1, t2)), dt))

RECURSIVE MultiIntegrate(_, _, _, _, _, _)
MultiIntegrate(cur_st, remaining, inputs, dt, pole_len, grav) ==
    IF remaining = 0
    THEN cur_st
    ELSE MultiIntegrate(MultiSubStep(cur_st, inputs, dt, pole_len, grav),
                        remaining - 1, inputs, dt, pole_len, grav)

get_new_positions(ctx, inputs) ==
    MultiIntegrate(ctx.batch_state.states, ctx.config.dynamics_steps_per_input,
                   inputs, DeltaTime(ctx.config),
                   ctx.config.parameters.pole_length,
                   ctx.config.parameters.gravity)

----------------------------------------------------------------------------
(* The calls made on CartPoleSystem objects *)

\* accelerations handed to advance_one_step / advance_to
Inputs == {0 - 100, 0, 100}

\* target times handed to advance_to
TargetTimes == {k * 10 : k \in 0..MaxTarget}

\* pole angles handed to the State constructor, before normalisation
RawAngles == {0 - 100, 0, 700}

SystemConfigurations ==
    {SystemConfiguration(steps, Discretization(rate, 2, 2, 2, 2, 2)) :
        steps \in DynamicsSteps, rate \in InputRates}

NoContext == [constructed |-> FALSE]

NoPositions == [returned |-> FALSE]

NoCall ==
    [op |-> "none", system |-> 0, input |-> 0, target_time |-> 0,
     raised |-> FALSE, before |-> <<>>, tensor |-> <<>>]

\* the triple of system s that advance_one_step reads and writes
SysOf(s) ==
    [current_state   |-> current_state[s],
     simulation_time |-> simulation_time[s],
     entries         |-> entries[history[s]]]

\* write the triple back to system s and its history object
Store(s, sys) ==
    /\ current_state' = [current_state EXCEPT ![s] = sys.current_state]
    /\ simulation_time' = [simulation_time EXCEPT ![s] = sys.simulation_time]
    /\ entries' = [entries EXCEPT ![history[s]] = sys.entries]
    /\ UNCHANGED <<config, history>>

\* CartPoleSystem(config, current_state=State(0, a, 0, 0), history=SystemHistory())
SysInit ==
    /\ config \in [{1} -> SystemConfigurations]
    /\ current_state \in [{1} -> {State(0, a, 0, 0) : a \in RawAngles}]
    /\ simulation_time = [s \in {1} |-> 0]
    /\ history = [s \in {1} |-> 1]
    /\ entries = [h \in {1} |-> <<>>]
    /\ context = NoContext
    /\ new_positions = NoPositions
    /\ last_call = NoCall

AdvanceOneStep(s, best_input) ==
    /\ Len(entries[history[s]]) < MaxSteps
    /\ Store(s, advance_one_step(config[s], SysOf(s), best_input))
    /\ last_call' =
          [op |-> "advance_one_step", system |-> s, input |-> best_input,
           target_time |-> 0, raised |-> FALSE, before |-> SysOf(s),
           tensor |-> IntegratedTensor(config[s], current_state[s], best_input)]
    /\ UNCHANGED <<context, new_positions>>

AdvanceTo(s, target_time, best_input) ==
    LET res == advance_to(config[s], SysOf(s), target_time, best_input)
    IN  /\ Len(res.sys.entries) <= MaxSteps
        /\ Store(s, res.sys)
        /\ last_call' =
              [op |-> "advance_to", system |-> s, input |-> best_input,
               target_time |-> target_time, raised |-> res.raised,
               before |-> SysOf(s), tensor |-> <<>>]
        /\ UNCHANGED <<context, new_positions>>

SysNext ==
    \/ \E s \in DOMAIN current_state, u \in Inputs : AdvanceOneStep(s, u)
    \/ \E s \in DOMAIN current_state, t \in TargetTimes, u \in Inputs :
          AdvanceTo(s, t, u)

SysSpec == SysInit /\ [][SysNext]_vars

----------------------------------------------------------------------------
(* Properties of CartPoleSystem *)

Last(seq) == seq[Len(seq)]

IsPrefix(a, b) == Len(a) <= Len(b) /\ \A i \in 1..Len(a) : a[i] = b[i]

Systems == DOMAIN current_state

\* C2: each advance_one_step appends an entry holding the state reached after
\* that step's integration, the time at which the step started and the input
\* applied during it.
C2_EntryHoldsReachedState ==
    \A s \in Systems :
        (last_call.op = "advance_one_step" /\ last_call.system = s) =>
            LET e == Last(entries[history[s]])
            IN  /\ e.state = current_state[s]
                /\ e.timestamp = last_call.before.simulation_time
                /\ e.current_input = last_call.input

StepsTaken == Len(entries[history[last_call.system]]) - Len(last_call.before.entries)

\* C4: advance_to(target_time, input) with target_time >= simulation_time makes
\* exactly the least k >= 0 calls of advance_one_step(input) after which
\* simulation_time >= target_time, each adding one input tick; none when
\* target_time = simulation_time.
C4_LeastStepCount ==
    (last_call.op = "advance_to"
        /\ last_call.target_time >= last_call.before.simulation_time) =>
        LET s    == last_call.system
            t0   == last_call.before.simulation_time
            n0   == Len(last_call.before.entries)
            tick == InputTick(config[s])
            k    == StepsTaken
        IN  /\ ~last_call.raised
            /\ k >= 0
            /\ simulation_time[s] = t0 + k * tick
            /\ simulation_time[s] >= last_call.target_time
            /\ k > 0 => t0 + (k - 1) * tick < last_call.target_time
            /\ last_call.target_time = t0 => k = 0
            /\ \A j \in 1..k :
                   /\ entries[history[s]][n0 + j].current_input = last_call.input
                   /\ entries[history[s]][n0 + j].timestamp = t0 + (j - 1) * tick

\* an advance_to that took two steps or more, and reached its target exactly
C4_Witness ==
    /\ last_call.op = "advance_to"
    /\ ~last_call.raised
    /\ StepsTaken >= 2
    /\ simulation_time[last_call.system] = last_call.target_time

\* C5: advance_to with target_time < simulation_time raises and leaves
\* current_state, simulation_time and the history as they were.
C5_RejectedAdvanceToKeepsState ==
    (last_call.op = "advance_to"
        /\ last_call.target_time < last_call.before.simulation_time) =>
        /\ last_call.raised
        /\ SysOf(last_call.system) = last_call.before

\* a rejected advance_to on a system that has already stepped
C5_Witness ==
    /\ last_call.op = "advance_to"
    /\ last_call.raised
    /\ Len(last_call.before.entries) > 0
    /\ last_call.target_time < simulation_time[last_call.system]

\* the history of every system holds one entry per input tick elapsed, in the
\* order of the steps, with non-decreasing timestamps
HistoryInOrder ==
    \A s \in Systems :
        LET h == entries[history[s]]
        IN  /\ Len(h) * InputTick(config[s]) = simulation_time[s]
            /\ \A i \in 1..Len(h) :
                   h[i].timestamp = (i - 1) * InputTick(config[s])
            /\ \A i, j \in 1..Len(h) :
                   i <= j => h[i].timestamp <= h[j].timestamp

\* a call only appends: what a history held stays where it was, and
\* advance_one_step adds exactly one entry
OnlyAppends ==
    /\ \A h \in DOMAIN entries : IsPrefix(entries[h], entries'[h])
    /\ \A s \in Systems : simulation_time[s] <= simulation_time'[s]
    /\ last_call'.op = "advance_one_step" =>
           Len(entries'[history[last_call'.system]])
               = Len(entries[history[last_call'.system]]) + 1

----------------------------------------------------------------------------
(* The calls made on a MultiSystemLearningContext *)

\* what torch.rand may return: values of [0, 1)
RandValues == {0, 50, Scale - 1}

\* accelerations handed to get_new_positions, one per column
BatchInputs == {0 - 100, 100}

BatchSizes == (0 - 1)..MaxBatch

\* configurations of every grid shape up to MaxPoints points per dimension
LatticeConfigurations ==
    {SystemConfiguration(2, Discretization(200, n_x, n_theta, n_xdot, n_thetadot, 2)) :
        n_x \in 1..MaxPoints, n_theta \in 1..MaxPoints,
        n_xdot \in 1..MaxPoints, n_thetadot \in 1..MaxPoints}

\* configurations whose lattice varies the angle and the angular velocity
MultiConfigurations ==
    {SystemConfiguration(steps, Discretization(200, 1, n_theta, 1, n_thetadot, 2)) :
        steps \in DynamicsSteps,
        n_theta \in 1..MaxPoints, n_thetadot \in 1..MaxPoints}

\* MultiSystemLearningContext(config=cfg, discreditizer=Discreditizer(cfg),
\*     batch_state=MultiSystemState.from_batch(all_states, [0]))
NewContext(cfg) ==
    [constructed   |-> TRUE,
     config        |-> cfg,
     discreditizer |-> Discreditizer(cfg),
     batch_state   |-> from_batch(Discreditizer(cfg).all_states, <<0>>)]

NoSystems ==
    /\ config = <<>>
    /\ current_state = <<>>
    /\ simulation_time = <<>>
    /\ history = <<>>
    /\ entries = <<>>

LatticeInit ==
    /\ NoSystems
    /\ context \in {NewContext(cfg) : cfg \in LatticeConfigurations}
    /\ new_positions = NoPositions
    /\ last_call = NoCall

CtxInit ==
    /\ NoSystems
    /\ context \in {NewContext(cfg) : cfg \in MultiConfigurations}
    /\ new_positions = NoPositions
    /\ last_call = NoCall

UpdateBatch(batch_size) ==
    \E rand \in [1..batch_size -> RandValues] :
        LET res == update_batch(context, batch_size, rand)
        IN  /\ context' = res.context
            /\ new_positions' = IF res.raised THEN new_positions ELSE NoPositions
            /\ last_call' =
                  [op |-> "update_batch", batch_size |-> batch_size,
                   raised |-> res.raised,
                   rand |-> IF res.raised THEN <<>> ELSE rand,
                   before |-> IF res.raised THEN context ELSE NoContext]
            /\ UNCHANGED sys_vars

GetNewPositions(inputs) ==
    /\ new_positions' =
          [returned |-> TRUE, inputs |-> inputs,
           states |-> context.batch_state.states,
           result |-> get_new_positions(context, inputs)]
    /\ last_call' = [op |-> "get_new_positions", raised |-> FALSE]
    /\ UNCHANGED <<context, sys_vars>>

CtxNext ==
    \/ \E k \in BatchSizes : UpdateBatch(k)
    \/ \E inputs \in [1..Width(context.batch_state.states) -> BatchInputs] :
          GetNewPositions(inputs)

CtxSpec == CtxInit /\ [][CtxNext]_vars

LatticeNext == \E k \in BatchSizes : UpdateBatch(k)

LatticeSpec == LatticeInit /\ [][LatticeNext]_vars

----------------------------------------------------------------------------
(* Properties of the lattice, the sampler and the batched integrator *)

Column(m, j) == [d \in 1..4 |-> m[d][j]]

\* the state advance_one_step reaches from column j of states under input u
SingleStepFrom(cfg, states, j, u) ==
    advance_one_step(cfg,
                     [current_state   |-> from_collection(Column(states, j)),
                      simulation_time |-> 0,
                      entries         |-> <<>>],
                     u).current_state

\* C1: column i of what get_new_positions returns equals the state that
\* advance_one_step reaches from state i with input i under the same
\* configuration, for every batch (a batch of one included).
C1_BatchMatchesSingleStep ==
    new_positions.returned =>
        \A i \in 1..Width(new_positions.states) :
            Column(new_positions.result, i)
                = as_tensor(SingleStepFrom(context.config, new_positions.states,
                                           i, new_positions.inputs[i]))

\* what does hold: the columns agree but for the angle, which the single
\* step reduces modulo 2*pi and the batched step leaves as integrated
BatchMatchesSingleStepModuloTurn ==
    new_positions.returned =>
        \A i \in 1..Width(new_positions.states) :
            LET col == Column(new_positions.result, i)
            IN  State(col[1], col[2], col[3], col[4])
                    = SingleStepFrom(context.config, new_positions.states,
                                     i, new_positions.inputs[i])

\* no column depends on another: a column integrated alone gives the same
ColumnsIndependent ==
    new_positions.returned =>
        \A i \in 1..Width(new_positions.states) :
            LET alone == [context EXCEPT !.batch_state =
                            [states |-> [d \in 1..4 |->
                                           <<new_positions.states[d][i]>>]]]
            IN  Column(new_positions.result, i)
                    = Column(get_new_positions(alone, <<new_positions.inputs[i]>>), 1)

\* the flat index the claim gives for the grid indices (ix, ia, iv, iw)
FlatIndex(ix, ia, iv, iw, d) ==
    ((ix * d.pole_angle + ia) * d.cart_velocity + iv) * d.pole_angular_velocity + iw

\* C7: update_batch(k) with 0 < k <= space_size stores a batch of exactly k
\* columns, column j being the lattice column at the index got by cutting the
\* fraction off rand[j] * space_size; every such index lies in [0, space_size).
C7_BatchDrawnFromLattice ==
    LET total == space_size(context.discreditizer)
        k     == last_call.batch_size
    IN  (last_call.op = "update_batch" /\ 0 < k /\ k <= total) =>
            /\ ~last_call.raised
            /\ \A j \in 1..k :
                   \E i \in 0..(total - 1) :
                       /\ i * Scale <= last_call.rand[j] * total
                       /\ last_call.rand[j] * total < (i + 1) * Scale
                       /\ Width(context.batch_state.states) = k
                       /\ Column(context.batch_state.states, j)
                              = Column(context.discreditizer.all_states, i + 1)

\* a batch of two columns, both the last column of a lattice of 16
C7_Witness ==
    /\ last_call.op = "update_batch"
    /\ ~last_call.raised
    /\ last_call.rand = <<Scale - 1, Scale - 1>>
    /\ space_size(context.discreditizer) = 16
    /\ Column(context.batch_state.states, 2)
           = Column(context.discreditizer.all_states, 16)

\* C8: update_batch(k) raises exactly when k <= 0 or k > space_size, and a
\* call that raises leaves the context, its batch_state included, as it was;
\* so k = 0 and k = space_size + 1 fail, k = 1 and k = space_size succeed.
C8_InvalidBatchSizeRejected ==
    LET total == space_size(context.discreditizer)
        k     == last_call.batch_size
    IN  last_call.op = "update_batch" =>
            /\ last_call.raised <=> (k <= 0 \/ k > total)
            /\ last_call.raised => context = last_call.before

\* update_batch(space_size + 1) rejected after a batch of space_size columns
\* had been stored
C8_Witness ==
    /\ last_call.op = "update_batch"
    /\ last_call.raised
    /\ last_call.batch_size = space_size(context.discreditizer) + 1
    /\ Width(context.batch_state.states) = space_size(context.discreditizer)

\* C9: the lattice has n_x * n_theta * n_xdot * n_thetadot columns, and the
\* combination of grid indices (ix, ia, iv, iw) is the column at flat index
\* ((ix * n_theta + ia) * n_xdot + iv) * n_thetadot + iw, each flat index
\* belonging to exactly one combination.
C9_LatticeLayout ==
    LET cfg   == context.config
        d     == cfg.discretization
        all   == context.discreditizer.all_states
        M     == d.cart_position * d.pole_angle * d.cart_velocity
                     * d.pole_angular_velocity
        xs    == linspace(0 - cfg.limits.max_abs_position,
                          cfg.limits.max_abs_position, d.cart_position)
        xdots == linspace(0 - cfg.limits.max_abs_velocity,
                          cfg.limits.max_abs_velocity, d.cart_velocity)
        thetadots == linspace(0 - cfg.limits.max_abs_angular_velocity,
                              cfg.limits.max_abs_angular_velocity,
                              d.pole_angular_velocity)
        Combos == (0..(d.cart_position - 1)) \X (0..(d.pole_angle - 1))
                      \X (0..(d.cart_velocity - 1))
                      \X (0..(d.pole_angular_velocity - 1))
    IN  /\ space_size(context.discreditizer) = M
        /\ \A r \in 1..4 : Len(all[r]) = M
        /\ \A c \in Combos :
               LET f == FlatIndex(c[1], c[2], c[3], c[4], d)
               IN  /\ f \in 0..(M - 1)
                   /\ Column(all, f + 1)
                          = <<xs[c[1] + 1], thetas(cfg)[c[2] + 1],
                              xdots[c[3] + 1], thetadots[c[4] + 1]>>
        /\ \A f \in 0..(M - 1) :
               Cardinality({c \in Combos :
                              FlatIndex(c[1], c[2], c[3], c[4], d) = f}) = 1

\* a lattice with two points or more in every dimension
C9_Witness ==
    /\ context.constructed
    /\ context.config.discretization.cart_position >= 2
    /\ context.config.discretization.pole_angle >= 2
    /\ context.config.discretization.cart_velocity >= 2
    /\ context.config.discretization.pole_angular_velocity >= 2
    /\ space_size(context.discreditizer) >= 16

\* C10: every angle of the lattice is >= 0 and < 2*pi, so that no two angles
\* of the grid denote the same normalised angle.
C10_AnglesHalfOpen ==
    LET angles == context.discreditizer.all_states[2]
        grid   == thetas(context.config)
    IN  /\ \A j \in 1..Len(angles) : angles[j] >= 0 /\ angles[j] < TwoPi
        /\ \A i, j \in 1..Len(grid) :
               i # j => PyMod(grid[i], TwoPi) # PyMod(grid[j], TwoPi)

----------------------------------------------------------------------------
(* Construction of a Discreditizer from any configuration *)

\* values of limits.max_abs_position a caller may configure
PositionLimits == {0 - 25, 0, 25}

\* configurations as a caller may write them: point counts from 0 up and
\* position limits of either sign
AnyConfigurations ==
    {[SystemConfiguration(2, Discretization(200, n_x, n_theta, n_xdot, n_thetadot, 2))
         EXCEPT !.limits.max_abs_position = p] :
        n_x \in 0..MaxPoints, n_theta \in 0..MaxPoints,
        n_xdot \in 0..MaxPoints, n_thetadot \in 0..MaxPoints,
        p \in PositionLimits}

\* a configuration the claim calls invalid: a non-positive limit or a
\* discretization point count below 1
InvalidConfiguration(cfg) ==
    \/ cfg.limits.max_abs_position <= 0
    \/ cfg.limits.max_abs_velocity <= 0
    \/ cfg.limits.max_abs_angular_velocity <= 0
    \/ cfg.limits.max_abs_acceleration <= 0
    \/ cfg.discretization.cart_position < 1
    \/ cfg.discretization.pole_angle < 1
    \/ cfg.discretization.cart_velocity < 1
    \/ cfg.discretization.pole_angular_velocity < 1
    \/ cfg.discretization.cart_acceleration < 1

ConstructInit ==
    /\ NoSystems
    /\ context = NoContext
    /\ new_positions = NoPositions
    /\ last_call = NoCall

\* Discreditizer(config=cfg): the dataclass __init__ stores the configuration
\* and runs __post_init__, which has no raise statement
Construct(cfg) ==
    /\ ~context.constructed
    /\ context' = [constructed   |-> TRUE,
                   config        |-> cfg,
                   discreditizer |-> Discreditizer(cfg),
                   batch_state   |-> [states |-> <<<<>>, <<>>, <<>>, <<>>>>]]
    /\ last_call' = [op |-> "Discreditizer", raised |-> FALSE]
    /\ UNCHANGED <<new_positions, sys_vars>>

ConstructNext == \E cfg \in AnyConfigurations : Construct(cfg)

ConstructSpec == ConstructInit /\ [][ConstructNext]_vars

\* C11: constructing a Discreditizer from a configuration with a non-positive
\* limit or a point count below 1 is rejected, and no lattice is produced.
C11_InvalidConfigurationRejected ==
    (last_call.op = "Discreditizer" /\ InvalidConfiguration(context.config)) =>
        /\ last_call.raised
        /\ "discreditizer" \notin DOMAIN context

----------------------------------------------------------------------------
(* Two CartPoleSystem objects constructed with default arguments *)

\* a = CartPoleSystem(); b = CartPoleSystem(): the defaults of the dataclass
\* fields are evaluated once, in the class body, so both objects refer to the
\* one SystemConfiguration, the one State.home() and the one SystemHistory
DefaultsInit ==
    /\ \E cfg \in SystemConfigurations : config = [s \in {1, 2} |-> cfg]
    /\ current_state = [s \in {1, 2} |-> home]
    /\ simulation_time = [s \in {1, 2} |-> 0]
    /\ history = [s \in {1, 2} |-> 1]
    /\ entries = [h \in {1} |-> <<>>]
    /\ context = NoContext
    /\ new_positions = NoPositions
    /\ last_call = NoCall

DefaultsSpec == DefaultsInit /\ [][SysNext]_vars

\* a call on one system leaves the other's current_state, simulation_time and
\* history as they were
OtherUntouched ==
    \A s \in Systems :
        s # last_call'.system =>
            /\ current_state'[s] = current_state[s]
            /\ simulation_time'[s] = simulation_time[s]
            /\ entries'[history'[s]] = entries[history[s]]

\* the history of a system holds one entry per step that system has made
OwnEntriesOnly ==
    \A s \in Systems :
        Len(entries[history[s]]) * InputTick(config[s]) = simulation_time[s]

\* C12: two systems constructed with default arguments are independent: a
\* step on one never changes the other's current_state, simulation_time or
\* history, and each history holds only entries of its own system's steps.
C12_DefaultInstancesIndependent == [](OwnEntriesOnly) /\ [][OtherUntouched]_vars

====
